---- MODULE Spec2Model ----
(***************************************************************************)
(* location_history_generator.py: a GPX track (waypoints without times)    *)
(* is turned into a location history.  load_data builds one TrackSegment   *)
(* per input segment; the constructor derives the mean velocity and the    *)
(* activity type, assigns a time to every point, removes points that share *)
(* a time and attaches activity markers; main checks segment overlap and   *)
(* exports the merged points.                                              *)
(*                                                                         *)
(* Waypoints are positions on a line, in whole metres; the geodesic        *)
(* distance of two waypoints is the absolute difference of their           *)
(* positions.  A float quotient a / b is kept as the exact fraction        *)
(* [num |-> a, den |-> b].  Sequences are 1-indexed: Python's points[i] is *)
(* points[i + 1] here.                                                     *)
(***************************************************************************)
EXTENDS Integers, Sequences, FiniteSets

VARIABLES
    input,          \* the (config entry, gpx segment) pairs load_data walks through
    idx,            \* how many of them load_data has started on
    pc,             \* the statement the program is at
    seg,            \* the TrackSegment under construction (self in __init__)
    segments,       \* load_data's list of constructed segments
    raised,         \* the exception that ended the program, if any
    overlap_result, \* what Helpers.segment_overlap returned to main
    merged_points   \* the point list main hands to export_data

vars == <<input, idx, pc, seg, segments, raised, overlap_result, merged_points>>

-----------------------------------------------------------------------------
(* Bounds of the model *)

MaxPoints == 4
MaxPos == 2
MaxStart == 1
MaxTime == 5
MaxRate == 2
MaxSegments == 2
MaxWin == 3
MaxVelNum == 126
MaxVelDen == 18

(* Program constants: the thresholds of ActivityType.from_mean_velocity *)

WalkingLimit == 5000
RunningLimit == 15000
VehicleLimit == 25000
SecondsPerHour == 3600

-----------------------------------------------------------------------------
(* Arithmetic *)

Abs(x) == IF x < 0 THEN -x ELSE x

\* Python's int(a / b): the quotient truncated toward zero (b # 0)
IntOfQuotient(a, b) ==
    LET q == Abs(a) \div Abs(b)
    IN  IF (a < 0) # (b < 0) THEN -q ELSE q

\* the sign-normalised numerator of a fraction (the sign of the float)
FracNum(v) == IF v.den < 0 THEN -v.num ELSE v.num
FracDen(v) == Abs(v.den)

\* v < a / b, for b > 0
FracLess(v, a, b) == FracNum(v) * b < a * FracDen(v)

-----------------------------------------------------------------------------
(* Exceptions *)

NoException == [type |-> "none", in |-> "none"]
Exception(type, in) == [type |-> type, in |-> in]

-----------------------------------------------------------------------------
(* TrackPoint, Activity, ActivityType *)

ActivityType == {"IN_VEHICLE", "ON_BICYCLE", "RUNNING", "STILL", "WALKING"}

\* TrackPoint.__init__; id stands for the object's identity (its place in the
\* input segment), pos for its coordinates
TrackPoint(id, pos) == [id |-> id, pos |-> pos, time |-> 0, activities |-> <<>>]

Activity(activity_type, time) == [activity_type |-> activity_type, time |-> time]

from_mean_velocity_bicycle(mean_velocity) ==
    IF FracNum(mean_velocity) < 0
    THEN "raise"
    ELSE IF FracNum(mean_velocity) = 0
    THEN "STILL"
    ELSE IF FracLess(mean_velocity, WalkingLimit, SecondsPerHour)
    THEN "WALKING"
    ELSE IF FracLess(mean_velocity, RunningLimit, SecondsPerHour)
    THEN "RUNNING"
    ELSE IF FracLess(mean_velocity, VehicleLimit, SecondsPerHour)
    THEN "ON_BICYCLE"
    ELSE "IN_VEHICLE"

\* ActivityType.from_mean_velocity; "raise" stands for `raise Exception()`
from_mean_velocity(mean_velocity) ==
    IF FracNum(mean_velocity) < 0
    THEN "raise"
    ELSE IF FracNum(mean_velocity) = 0
    THEN "STILL"
    ELSE IF 0 <= FracNum(mean_velocity)
            /\ FracLess(mean_velocity, WalkingLimit, SecondsPerHour)
    THEN "WALKING"
    ELSE IF ~ FracLess(mean_velocity, WalkingLimit, SecondsPerHour)
            /\ FracLess(mean_velocity, RunningLimit, SecondsPerHour)
    THEN "RUNNING"
    ELSE IF ~ FracLess(mean_velocity, RunningLimit, SecondsPerHour)
            /\ FracLess(mean_velocity, VehicleLimit, SecondsPerHour)
    THEN "RUNNING"
    ELSE "IN_VEHICLE"

-----------------------------------------------------------------------------
(* Helpers *)

\* Helpers.distance: the geodesic distance of two points
distance(point1, point2) == Abs(point1.pos - point2.pos)

RECURSIVE DistanceLoop(_, _)
\* the loop of distance_sum from Python index i - 1 on
DistanceLoop(points, i) ==
    IF i > Len(points) - 2
    THEN 0
    ELSE distance(points[i], points[i + 1]) + DistanceLoop(points, i + 1)

\* Helpers.distance_sum: for i in range(0, len(points) - 2)
distance_sum(points) == DistanceLoop(points, 1)

time_diff_zero(point1, point2, mean_velocity) ==
    IF mean_velocity.num = 0
    THEN [raised |-> FALSE, value |-> 0]
    ELSE [raised |-> FALSE,
          value |-> IntOfQuotient(distance(point1, point2) * mean_velocity.den,
                                  mean_velocity.num)]

time_diff_ceil(point1, point2, mean_velocity) ==
    IF mean_velocity.num = 0
    THEN [raised |-> TRUE, value |-> 0]
    ELSE [raised |-> FALSE,
          value |-> IntOfQuotient(distance(point1, point2) * mean_velocity.den
                                    + mean_velocity.num - 1,
                                  mean_velocity.num)]

\* Helpers.time_diff: int(distance / mean_velocity); the float division raises
\* ZeroDivisionError when mean_velocity is 0.0 or -0.0
time_diff(point1, point2, mean_velocity) ==
    IF mean_velocity.num = 0
    THEN [raised |-> TRUE, value |-> 0]
    ELSE [raised |-> FALSE,
          value |-> IntOfQuotient(distance(point1, point2) * mean_velocity.den,
                                  mean_velocity.num)]

mean_velocity_guarded(points, interval) ==
    IF interval.end - interval.start = 0
    THEN [raised |-> FALSE, value |-> [num |-> 0, den |-> 1]]
    ELSE [raised |-> FALSE,
          value |-> [num |-> distance_sum(points),
                     den |-> interval.end - interval.start]]

\* Helpers.mean_velocity: distance_sum(points) / (interval.end - interval.start);
\* the division raises ZeroDivisionError when the interval is empty
mean_velocity(points, interval) ==
    IF interval.end - interval.start = 0
    THEN [raised |-> TRUE, value |-> [num |-> 0, den |-> 1]]
    ELSE [raised |-> FALSE,
          value |-> [num |-> distance_sum(points),
                     den |-> interval.end - interval.start]]

overlap_strict(interval1, interval2) ==
    interval1.start < interval2.end /\ interval2.start < interval1.end

\* Helpers.overlap
overlap(interval1, interval2) ==
    interval1.start <= interval2.end /\ interval2.start <= interval1.end

\* Helpers.segment_overlap: s1 != s2 compares the objects' identities, here
\* their places in the list
segment_overlap(segs) ==
    \E i \in 1..Len(segs) : \E j \in 1..Len(segs) :
        i # j /\ overlap(segs[i].interval, segs[j].interval)

-----------------------------------------------------------------------------
(* TrackSegment *)

RECURSIVE PointTimesLoop(_, _, _)
\* the loop of generate_point_times from Python index i - 1 on
PointTimesLoop(points, i, velocity) ==
    IF i > Len(points) - 2
    THEN [raised |-> NoException, points |-> points]
    ELSE LET td == time_diff(points[i], points[i + 1], velocity)
         IN  IF td.raised
             THEN [raised |-> Exception("ZeroDivisionError", "time_diff"),
                   points |-> points]
             ELSE PointTimesLoop(
                      [points EXCEPT ![i + 1].time = points[i].time + td.value],
                      i + 1, velocity)

\* TrackSegment.generate_point_times; points[0] of an empty list raises
\* IndexError
generate_point_times(points, interval, velocity) ==
    IF Len(points) = 0
    THEN [raised |-> Exception("IndexError", "generate_point_times"),
          points |-> points]
    ELSE LET first == [points EXCEPT ![1].time = interval.start]
             last == [first EXCEPT ![Len(points)].time = interval.end]
         IN  PointTimesLoop(last, 1, velocity)

\* unique_time_points[point.time] = point: a key already in the dict keeps its
\* place and takes the new value, a new key goes to the end
DictSet(dict, point) ==
    IF \E k \in 1..Len(dict) : dict[k].time = point.time
    THEN [k \in 1..Len(dict) |->
             IF dict[k].time = point.time THEN point ELSE dict[k]]
    ELSE Append(dict, point)

RECURSIVE DedupLoop(_, _, _)
DedupLoop(points, i, dict) ==
    IF i > Len(points)
    THEN dict
    ELSE DedupLoop(points, i + 1, DictSet(dict, points[i]))

remove_duplicate_time_points_none(points) == points

\* TrackSegment.remove_duplicate_time_points: list(unique_time_points.values())
remove_duplicate_time_points(points) == DedupLoop(points, 1, <<>>)

\* the inner loop: for j in range(0, math.floor(time_diff / rate))
Markers(point, activity, rate, count) ==
    [j \in 1..count |-> Activity(activity, point.time + rate * (j - 1))]

RECURSIVE ActivitiesLoopInclusive(_, _, _, _)
ActivitiesLoopInclusive(points, i, activity, rate) ==
    IF i > Len(points) - 2
    THEN [raised |-> NoException, points |-> points]
    ELSE LET td == points[i + 1].time - points[i].time
         IN  IF td > rate
             THEN IF rate = 0
                  THEN [raised |-> Exception("ZeroDivisionError", "generate_activities"),
                        points |-> points]
                  ELSE ActivitiesLoopInclusive(
                           [points EXCEPT ![i].activities =
                               points[i].activities
                                 \o Markers(points[i], activity, rate, (td \div rate) + 1)],
                           i + 1, activity, rate)
             ELSE ActivitiesLoopInclusive(points, i + 1, activity, rate)

generate_activities_inclusive(points, activity, rate) ==
    ActivitiesLoopInclusive(points, 1, activity, rate)

RECURSIVE ActivitiesLoop(_, _, _, _)
\* the outer loop of generate_activities from Python index i - 1 on;
\* time_diff / rate raises ZeroDivisionError when rate is 0
ActivitiesLoop(points, i, activity, rate) ==
    IF i > Len(points) - 2
    THEN [raised |-> NoException, points |-> points]
    ELSE LET td == points[i + 1].time - points[i].time
         IN  IF td > rate
             THEN IF rate = 0
                  THEN [raised |-> Exception("ZeroDivisionError", "generate_activities"),
                        points |-> points]
                  ELSE ActivitiesLoop(
                           [points EXCEPT ![i].activities =
                               points[i].activities
                                 \o Markers(points[i], activity, rate, td \div rate)],
                           i + 1, activity, rate)
             ELSE ActivitiesLoop(points, i + 1, activity, rate)

\* TrackSegment.generate_activities
generate_activities(points, activity, rate) ==
    ActivitiesLoop(points, 1, activity, rate)

-----------------------------------------------------------------------------
(* Inputs *)

SeqsUpTo(S, n) == UNION {[1..k -> S] : k \in 0..n}

Entry(points, rate, start, end) ==
    [points |-> points, rate |-> rate, start |-> start, end |-> end]

\* one segment: any short track, any window, any sampling rate
Entries ==
    {Entry(p, r, s, e) : p \in SeqsUpTo(0..MaxPos, MaxPoints), r \in 0..MaxRate,
                         s \in 0..MaxStart, e \in 0..MaxTime}

\* spec.md, end-to-end scenario 1: 2 points 50 m apart, window {0, 100}
Scenario1 == Entry(<<0, 50>>, 10, 0, 100)

\* segments of a file that differ in their windows only
WindowEntries ==
    {Entry(<<0, 1>>, 1, s, e) : s \in 0..MaxWin, e \in 0..MaxWin}

\* spec.md, end-to-end scenario 3
Scenario3a == <<Entry(<<0, 1>>, 1, 0, 100), Entry(<<0, 1>>, 1, 50, 150)>>
Scenario3b == <<Entry(<<0, 1>>, 1, 0, 50), Entry(<<0, 1>>, 1, 51, 100)>>

Velocities ==
    {[num |-> n, den |-> d] : n \in (-MaxVelNum)..MaxVelNum, d \in 1..MaxVelDen}

NoSegment ==
    [points |-> <<>>, interval |-> [start |-> 0, end |-> 0],
     mean_velocity |-> [num |-> 0, den |-> 1], activity |-> "unset",
     activity_sampling_rate |-> 0]

-----------------------------------------------------------------------------
(* The program *)

Start ==
    /\ idx = 0
    /\ pc = "load_data"
    /\ seg = NoSegment
    /\ segments = <<>>
    /\ raised = NoException
    /\ overlap_result = FALSE
    /\ merged_points = <<>>

\* a file of at most one segment
Init ==
    /\ input \in {<<>>, <<Scenario1>>} \cup {<<e>> : e \in Entries}
    /\ Start

\* a file of several segments
InitOverlap ==
    /\ input \in SeqsUpTo(WindowEntries, MaxSegments) \cup {Scenario3a, Scenario3b}
    /\ Start

\* the classifier called on any velocity
InitClassify ==
    /\ input = <<Entry(<<>>, 1, 0, 1)>>
    /\ idx = 1
    /\ pc = "from_mean_velocity"
    /\ seg \in {[NoSegment EXCEPT !.interval = [start |-> 0, end |-> 1],
                                  !.mean_velocity = v] : v \in Velocities}
    /\ segments = <<>>
    /\ raised = NoException
    /\ overlap_result = FALSE
    /\ merged_points = <<>>

Raise(exception) ==
    /\ pc' = "raised"
    /\ raised' = exception

\* load_data, the loop head: the next segment's TrackSegment.__init__ begins
\* (the points are wrapped, the interval is stored)
LoadSegment ==
    /\ pc = "load_data"
    /\ idx < Len(input)
    /\ idx' = idx + 1
    /\ seg' = [NoSegment EXCEPT
                 !.points = [i \in 1..Len(input[idx + 1].points) |->
                                TrackPoint(i, input[idx + 1].points[i])],
                 !.interval = [start |-> input[idx + 1].start,
                               end |-> input[idx + 1].end]]
    /\ pc' = "mean_velocity"
    /\ UNCHANGED <<input, segments, raised, overlap_result, merged_points>>

\* self.mean_velocity = Helpers.mean_velocity(self.points, self.interval)
MeanVelocity ==
    /\ pc = "mean_velocity"
    /\ LET r == mean_velocity(seg.points, seg.interval)
       IN  IF r.raised
           THEN /\ Raise(Exception("ZeroDivisionError", "mean_velocity"))
                /\ UNCHANGED seg
           ELSE /\ seg' = [seg EXCEPT !.mean_velocity = r.value]
                /\ pc' = "from_mean_velocity"
                /\ UNCHANGED raised
    /\ UNCHANGED <<input, idx, segments, overlap_result, merged_points>>

\* self.activity = ActivityType.from_mean_velocity(self.mean_velocity) and
\* self.activity_sampling_rate = activity_sampling_rate
FromMeanVelocity ==
    /\ pc = "from_mean_velocity"
    /\ LET a == from_mean_velocity(seg.mean_velocity)
       IN  IF a = "raise"
           THEN /\ Raise(Exception("Exception", "from_mean_velocity"))
                /\ UNCHANGED seg
           ELSE /\ seg' = [seg EXCEPT !.activity = a,
                                     !.activity_sampling_rate = input[idx].rate]
                /\ pc' = "generate_point_times"
                /\ UNCHANGED raised
    /\ UNCHANGED <<input, idx, segments, overlap_result, merged_points>>

\* self.generate_point_times()
GeneratePointTimes ==
    /\ pc = "generate_point_times"
    /\ LET r == generate_point_times(seg.points, seg.interval, seg.mean_velocity)
       IN  /\ seg' = [seg EXCEPT !.points = r.points]
           /\ IF r.raised # NoException
              THEN Raise(r.raised)
              ELSE pc' = "remove_duplicate_time_points" /\ UNCHANGED raised
    /\ UNCHANGED <<input, idx, segments, overlap_result, merged_points>>

\* self.remove_duplicate_time_points()
RemoveDuplicateTimePoints ==
    /\ pc = "remove_duplicate_time_points"
    /\ seg' = [seg EXCEPT !.points = remove_duplicate_time_points(seg.points)]
    /\ pc' = "generate_activities"
    /\ UNCHANGED <<input, idx, segments, raised, overlap_result, merged_points>>

\* self.generate_activities(); the constructor returns and load_data appends
\* the segment
GenerateActivities ==
    /\ pc = "generate_activities"
    /\ LET r == generate_activities(seg.points, seg.activity,
                                    seg.activity_sampling_rate)
       IN  /\ seg' = [seg EXCEPT !.points = r.points]
           /\ IF r.raised # NoException
              THEN Raise(r.raised) /\ UNCHANGED segments
              ELSE /\ segments' = Append(segments, seg')
                   /\ pc' = "load_data"
                   /\ UNCHANGED raised
    /\ UNCHANGED <<input, idx, overlap_result, merged_points>>

\* main: load_data has returned; Helpers.segment_overlap(segments)
SegmentOverlap ==
    /\ pc = "load_data"
    /\ idx = Len(input)
    /\ overlap_result' = segment_overlap(segments)
    /\ pc' = "export_data"
    /\ UNCHANGED <<input, idx, seg, segments, raised, merged_points>>

RECURSIVE Flatten(_, _)
\* [p for s in segments for p in s.points]
Flatten(segs, k) ==
    IF k > Len(segs) THEN <<>> ELSE segs[k].points \o Flatten(segs, k + 1)

\* main: the merged points go to export_data
ExportData ==
    /\ pc = "export_data"
    /\ merged_points' = Flatten(segments, 1)
    /\ pc' = "done"
    /\ UNCHANGED <<input, idx, seg, segments, raised, overlap_result>>

Next ==
    \/ LoadSegment
    \/ MeanVelocity
    \/ FromMeanVelocity
    \/ GeneratePointTimes
    \/ RemoveDuplicateTimePoints
    \/ GenerateActivities
    \/ SegmentOverlap
    \/ ExportData

NextClassify == FromMeanVelocity

Spec == Init /\ [][Next]_vars

SpecOverlap == InitOverlap /\ [][Next]_vars

SpecClassify == InitClassify /\ [][NextClassify]_vars

-----------------------------------------------------------------------------
(* Properties *)

NonDecreasing(points) ==
    \A i \in 1..(Len(points) - 1) : points[i].time <= points[i + 1].time

StrictlyIncreasing(points) ==
    \A i \in 1..(Len(points) - 1) : points[i].time < points[i + 1].time

Times(points) == {points[i].time : i \in 1..Len(points)}

\* the input segment k has at least 2 points and a window with start < end
ProperInput(k) ==
    Len(input[k].points) >= 2 /\ input[k].start < input[k].end

BoundaryTimes(points, k) ==
    /\ Len(points) >= 2
    /\ points[1].time = input[k].start
    /\ points[Len(points)].time = input[k].end

\* C1: for a segment of at least 2 points with window.start < window.end, the
\* times generate_point_times assigns are non-decreasing in point order over
\* the whole list (the step to the last point included), the first point
\* carries window.start and the last window.end, and after
\* remove_duplicate_time_points the first and last surviving points still
\* carry window.start and window.end.
C1_TimesNonDecreasing ==
    /\ (pc = "remove_duplicate_time_points" /\ ProperInput(idx))
           => /\ Len(seg.points) = Len(input[idx].points)
              /\ NonDecreasing(seg.points)
              /\ BoundaryTimes(seg.points, idx)
    /\ (pc = "generate_activities" /\ ProperInput(idx))
           => BoundaryTimes(seg.points, idx)
    /\ \A k \in 1..Len(segments) :
           ProperInput(k) => /\ NonDecreasing(segments[k].points)
                             /\ BoundaryTimes(segments[k].points, k)

\* generate_point_times has run on 4 points or more, and the recurrence put
\* two different times strictly inside the window
C1_Witness ==
    /\ pc = "remove_duplicate_time_points"
    /\ ProperInput(idx)
    /\ Len(seg.points) >= 4
    /\ input[idx].start < seg.points[2].time
    /\ seg.points[2].time < seg.points[Len(seg.points) - 1].time
    /\ seg.points[Len(seg.points) - 1].time < input[idx].end

\* what remove_duplicate_time_points makes of the list `before`
DedupPost(before, after) ==
    /\ StrictlyIncreasing(after)
    /\ Times(after) = Times(before)
    /\ \A j \in 1..Len(after) : \E i \in 1..Len(before) : before[i] = after[j]
    /\ \A j \in 1..(Len(after) - 1) : after[j].id < after[j + 1].id

\* C2 as stated: after remove_duplicate_time_points, for any segment, the
\* surviving points' times are strictly increasing in list order, exactly one
\* point survives per distinct time present before, and the survivors keep
\* their relative order.
C2_Original ==
    [][pc = "remove_duplicate_time_points"
           => DedupPost(seg.points, seg'.points)]_vars

\* C2 as amended: the same, for any segment whose window has start <= end.
C2_DedupOrdered ==
    [][(pc = "remove_duplicate_time_points"
          /\ seg.interval.start <= seg.interval.end)
           => DedupPost(seg.points, seg'.points)]_vars

\* remove_duplicate_time_points has dropped points and left 3 or more
C2_Witness ==
    /\ pc = "generate_activities"
    /\ seg.interval.start <= seg.interval.end
    /\ Len(seg.points) < Len(input[idx].points)
    /\ Len(seg.points) >= 3

MarkerTimes(point) ==
    [j \in 1..Len(point.activities) |-> point.activities[j].time]

\* the marker times the gap after points[i] calls for
GapMarkerTimes(points, i, rate) ==
    LET g == points[i + 1].time - points[i].time
    IN  IF g > rate
        THEN [j \in 1..(g \div rate) |-> points[i].time + rate * (j - 1)]
        ELSE <<>>

\* C3: with sampling rate r > 0, for each consecutive pair (p[i], p[i+1]) of
\* the deduplicated list with gap g: if g > r, exactly floor(g / r) markers are
\* attached to p[i], at p[i].time + r*j for j = 0 .. floor(g/r)-1; if g <= r,
\* none.
C3_MarkersOnEveryGap ==
    \A k \in 1..Len(segments) :
        segments[k].activity_sampling_rate > 0
            => \A i \in 1..(Len(segments[k].points) - 1) :
                   MarkerTimes(segments[k].points[i])
                       = GapMarkerTimes(segments[k].points, i,
                                        segments[k].activity_sampling_rate)

\* C4: from_mean_velocity raises for every v < 0 and, for v >= 0, returns STILL
\* iff v = 0, WALKING iff 0 < v < 5 km/h, RUNNING iff 5 km/h <= v < 25 km/h,
\* IN_VEHICLE iff v >= 25 km/h, and never ON_BICYCLE.  (v m/s is 18 v / 5 km/h.)
C4_Bands ==
    pc # "from_mean_velocity"
        => LET n == seg.mean_velocity.num
               d == seg.mean_velocity.den
           IN  /\ (n < 0) <=> (pc = "raised")
               /\ (pc = "raised") => raised = Exception("Exception", "from_mean_velocity")
               /\ (n >= 0)
                     => /\ seg.activity \in ActivityType \ {"ON_BICYCLE"}
                        /\ (seg.activity = "STILL") <=> (n = 0)
                        /\ (seg.activity = "WALKING")
                               <=> (0 < n /\ 18 * n < 5 * 5 * d)
                        /\ (seg.activity = "RUNNING")
                               <=> (5 * 5 * d <= 18 * n /\ 18 * n < 25 * 5 * d)
                        /\ (seg.activity = "IN_VEHICLE") <=> (18 * n >= 25 * 5 * d)

\* a velocity of exactly 25 km/h has been classified
C4_Witness ==
    /\ pc # "from_mean_velocity"
    /\ 18 * seg.mean_velocity.num = 25 * 5 * seg.mean_velocity.den
    /\ seg.activity = "IN_VEHICLE"

Injections(n) ==
    {f \in [1..n -> 1..n] : \A a, b \in 1..n : f[a] = f[b] => a = b}

\* C5: segment_overlap returns true iff two distinct segments s1, s2 of the
\* list have s1.start <= s2.end and s2.start <= s1.end; the result does not
\* depend on the order of the list; a single segment yields false; windows
\* {0,100},{50,150} yield true and {0,50},{51,100} yield false.
C5_Overlap ==
    pc \in {"export_data", "done"}
        => /\ overlap_result
                  = (\E i, j \in 1..Len(segments) :
                        /\ i < j
                        /\ segments[i].interval.start <= segments[j].interval.end
                        /\ segments[j].interval.start <= segments[i].interval.end)
           /\ \A f \in Injections(Len(segments)) :
                  segment_overlap([k \in 1..Len(segments) |-> segments[f[k]]])
                      = overlap_result
           /\ Len(segments) = 1 => ~ overlap_result
           /\ input = Scenario3a => overlap_result
           /\ input = Scenario3b => ~ overlap_result

\* two segments that only touch (one ends when the other starts) overlap
C5_Witness ==
    /\ pc = "done"
    /\ Len(segments) = 2
    /\ segments[1].interval.start < segments[1].interval.end
    /\ segments[1].interval.end = segments[2].interval.start
    /\ segments[2].interval.start < segments[2].interval.end
    /\ overlap_result

\* C6: a segment of exactly 2 points d > 0 metres apart with window
\* {start, end}, start < end, has mean velocity d / (end - start) and the
\* activity type of that velocity; 2 points 50 m apart with window {0, 100}
\* give 0.5 m/s, WALKING, and 2 output points with times [0, 100].
C6_TwoPointVelocity ==
    \A k \in 1..Len(segments) :
        LET d == Abs(input[k].points[1] - input[k].points[2])
            t == input[k].end - input[k].start
        IN  (Len(input[k].points) = 2 /\ d > 0 /\ t > 0)
                => /\ segments[k].mean_velocity.num * t
                          = d * segments[k].mean_velocity.den
                   /\ segments[k].activity
                          = from_mean_velocity([num |-> d, den |-> t])
                   /\ input[k] = Scenario1
                          => /\ segments[k].activity = "WALKING"
                             /\ Len(segments[k].points) = 2
                             /\ segments[k].points[1].time = 0
                             /\ segments[k].points[2].time = 100

\* C7: constructing a TrackSegment from fewer than 2 points, with
\* window.start < window.end, fails: no segment is produced for it.
C7_FewPointsRejected ==
    \A k \in 1..Len(input) :
        (Len(input[k].points) < 2 /\ input[k].start < input[k].end)
            => /\ Len(segments) < k
               /\ pc \notin {"export_data", "done"}

\* the points of input segment k as TrackSegment.__init__ first wraps them
Wrapped(k) ==
    [i \in 1..Len(input[k].points) |-> TrackPoint(i, input[k].points[i])]

\* C8: when window.start = window.end, for any point list, construction fails
\* with a division by zero in the mean-velocity step, before any time is
\* assigned, any point removed or any marker generated; the failure ends the
\* program and none of the segment's points are exported.
C8_EmptyWindowRaises ==
    \A k \in 1..Len(input) :
        input[k].start = input[k].end
            => /\ idx <= k
               /\ Len(segments) < k
               /\ pc \notin {"export_data", "done"}
               /\ merged_points = <<>>
               /\ (idx = k /\ pc # "mean_velocity")
                     => /\ pc = "raised"
                        /\ raised = Exception("ZeroDivisionError", "mean_velocity")
                        /\ seg.points = Wrapped(k)

\* the constructor has raised on an empty window with points that are apart
C8_Witness ==
    /\ pc = "raised"
    /\ idx >= 1
    /\ input[idx].start = input[idx].end
    /\ Len(input[idx].points) >= 2
    /\ input[idx].points[1] # input[idx].points[2]

\* the first n - 1 points of input segment k coincide
ZeroDistance(k) ==
    \A i \in 1..(Len(input[k].points) - 1) :
        input[k].points[i] = input[k].points[1]

\* C9: a segment of at least 3 points, window.start < window.end, whose
\* first n - 1 points coincide never completes construction: it is classified
\* STILL and then time allocation fails with a division by zero in time_diff.
\* So every completed segment that is STILL has at most 2 points, and every
\* completed segment of at least 3 points has mean velocity > 0.
C9_ZeroDistanceNeverCompletes ==
    /\ \A k \in 1..Len(input) :
           (Len(input[k].points) >= 3 /\ input[k].start < input[k].end
              /\ ZeroDistance(k))
               => /\ idx <= k
                  /\ Len(segments) < k
                  /\ idx = k
                        => /\ pc \in {"mean_velocity", "from_mean_velocity",
                                      "generate_point_times", "raised"}
                           /\ pc = "generate_point_times" => seg.activity = "STILL"
                           /\ pc = "raised"
                                 => /\ seg.activity = "STILL"
                                    /\ raised = Exception("ZeroDivisionError",
                                                          "time_diff")
    /\ \A k \in 1..Len(segments) :
           /\ segments[k].activity = "STILL" => Len(input[k].points) <= 2
           /\ Len(input[k].points) >= 3
                 => FracNum(segments[k].mean_velocity) > 0

\* time allocation has failed on 3 or more points of which only the last is
\* apart from the others
C9_Witness ==
    /\ pc = "raised"
    /\ raised = Exception("ZeroDivisionError", "time_diff")
    /\ Len(input[idx].points) >= 3
    /\ input[idx].start < input[idx].end
    /\ input[idx].points[Len(input[idx].points)] # input[idx].points[1]

\* C10: in every completed segment with sampling rate r > 0, every marker
\* attached to p[i] has a time t with p[i].time <= t < p[i+1].time, the markers
\* of one point start at p[i].time and increase by r, and the last point of
\* the final list carries no markers.
C10_MarkersInsideGap ==
    \A k \in 1..Len(segments) :
        LET p == segments[k].points
            r == segments[k].activity_sampling_rate
        IN  r > 0
              => /\ \A i \in 1..(Len(p) - 1) :
                       \A j \in 1..Len(p[i].activities) :
                           /\ p[i].activities[j].time = p[i].time + r * (j - 1)
                           /\ p[i].time <= p[i].activities[j].time
                           /\ p[i].activities[j].time < p[i + 1].time
                 /\ Len(p) >= 1 => p[Len(p)].activities = <<>>

\* a completed segment has a point with 2 markers or more
C10_Witness ==
    \E k \in 1..Len(segments) :
        \E i \in 1..(Len(segments[k].points) - 1) :
            /\ segments[k].activity_sampling_rate > 0
            /\ Len(segments[k].points[i].activities) >= 2

====
